---- MODULE Spec2Model ----
(***************************************************************************)
(* Model of src/sharepoint.py: the SharePointObjectBuilder (the site       *)
(* registry over config.ini) and the SharePoint object (the site client).  *)
(*                                                                         *)
(* RegistrySpec runs the builder's two entry points, __call__ (resolve)    *)
(* and register_site, against the credential store.  Spec runs the         *)
(* operations of one constructed SharePoint object against the remote      *)
(* folders and the local file system.                                      *)
(***************************************************************************)
EXTENDS Integers, Sequences, FiniteSets, TLC

VARIABLES
    storeState,   \* config.ini on disk: "missing", "ok" or "corrupt" (unparseable)
    store,        \* the sections of config.ini: section name -> options
    _instance,    \* SharePointObjectBuilder._instance
    call,         \* the last builder call: what was asked and how it ended
    failedReg,    \* history: sites whose latest register_site ended in the authentication error
    json_data,    \* SharePoint.json_data, the single-slot folder listing
    remote,       \* the remote site: folder -> file name -> content
    local,        \* the local file system: path -> content
    op            \* the last client operation: what was asked, how it ended, what it sent and wrote

registryVars == <<storeState, store, _instance, call, failedReg>>
clientVars == <<json_data, remote, local, op>>
vars == <<storeState, store, _instance, call, failedReg, json_data, remote, local, op>>

----------------------------------------------------------------------------
(* Values shared by both components *)
(* Every record constructor lists its fields in the order TLC sorts them   *)
(* (first use of the name as an identifier), so that TLC's workers never   *)
(* reorder a record they share.                                            *)

None == "None"

\* HTTP status codes the code compares against
HTTP_OK == 200
HTTP_CREATED == 201
\* the status field of a call that made no exchange
NoStatus == 0

----------------------------------------------------------------------------
(* The credential store: config.ini as configparser reads and writes it *)

DEFAULT == "DEFAULT"                       \* ConfigParser.default_section
Fields == {"client_id", "client_secret", "domain", "tenant_id"}
Absent == "<absent>"                       \* the option is not in the section
NoSection == [f \in Fields |-> "<no section>"]   \* the section is not in the file

Sections == {DEFAULT, "s1", "s2"}          \* section names a readable file may hold
Sites == {"", DEFAULT, "s1", "s2"}         \* site names passed to __call__
RegSites == {"", DEFAULT, "s1"}            \* site names passed to register_site
ClientIds == {"id1", "id2"}
ClientSecrets == {"sec1"}
Optional(S) == {None, ""} \cup S           \* an optional str argument: omitted, empty, or given
Domains == {"d1"}
Tenants == {"t1"}
Tokens == {"tok", None}                    \* res.json().get('access_token')
Statuses == {HTTP_OK, 401}                 \* status codes the token endpoint answers with

EmptyRecord == [f \in Fields |-> Absent]

\* Python truthiness of an optional str argument
Truthy(x) == x # None /\ x # ""

\* `site in self._parser`: ConfigParser.__contains__ is true of the default
\* section name whatever the file holds
InParser(st, site) ==
    \/ site = DEFAULT
    \/ site \in DOMAIN st /\ st[site] # NoSection

\* self._parser.get(site, option): the section's own option, else the default
\* section's; Absent stands for the NoOptionError
ParserGet(st, site, f) ==
    IF site # DEFAULT /\ st[site][f] # Absent THEN st[site][f] ELSE st[DEFAULT][f]

\* _get_configs reads all four options
HasConfigs(st, site) == \A f \in Fields : ParserGet(st, site, f) # Absent

\* the Response namedtuple _authorize returns for the endpoint's answer res
Authorize(st, site, res) ==
    [status_code |-> res.status, token |-> res.token, domain |-> ParserGet(st, site, "domain")]

\* self.json_data = None, as _set_headers leaves it
NoData == [fetched |-> FALSE, results |-> {}]

\* SharePoint.__init__
SharePoint(site, response) ==
    [site |-> site, status_code |-> response.status_code,
     domain |-> response.domain, access_token |-> response.token]

\* SharePoint.connection_status
connection_status(c) == c.status_code

NoClient == [site |-> None, status_code |-> NoStatus, domain |-> None, access_token |-> None]

\* a builder that does not look at the status: an object for every answer
CallConnectedAnyStatus(site, st, res) ==
    [status |-> res.status, outcome |-> "client", exchanges |-> 1,
     client |-> SharePoint(site, Authorize(st, site, res))]

\* What one __call__(site) does against store state ss / sections st when the
\* token endpoint would answer res: how it ends, the status of the exchange it
\* made (if any), how many exchanges it made, and the object it built (if any)
CallConnected(site, st, res) ==
    IF Authorize(st, site, res).status_code = HTTP_OK
    THEN [status |-> res.status, outcome |-> "client", exchanges |-> 1,
          client |-> SharePoint(site, Authorize(st, site, res))]
    ELSE [status |-> res.status, outcome |-> "ConnectionRefusedError", exchanges |-> 1,
          client |-> NoClient]

Ends(outcome) == [status |-> NoStatus, outcome |-> outcome, exchanges |-> 0, client |-> NoClient]

CheckSiteInConfig(site, ss, st, res) ==
    IF ss = "missing" THEN Ends("FileNotFoundError")
    ELSE IF ss = "corrupt" THEN Ends("ParsingError")
    ELSE IF ~InParser(st, site) THEN Ends("KeyError")
    ELSE IF ~HasConfigs(st, site) THEN Ends("NoOptionError")
    ELSE CallConnected(site, st, res)

CallResult(site, ss, st, res) ==
    IF site = "" THEN Ends("None") ELSE CheckSiteInConfig(site, ss, st, res)

\* a register_site that takes one optional argument for an external site
NewRecordEither(client_id, client_secret, domain, tenant_id) ==
    IF Truthy(domain) \/ Truthy(tenant_id)
    THEN [domain |-> domain, client_id |-> client_id,
          client_secret |-> client_secret, tenant_id |-> tenant_id]
    ELSE [domain |-> Absent, client_id |-> client_id,
          client_secret |-> client_secret, tenant_id |-> Absent]

\* the section register_site writes for the site
NewRecord(client_id, client_secret, domain, tenant_id) ==
    IF Truthy(domain) /\ Truthy(tenant_id)
    THEN [domain |-> domain, client_id |-> client_id,
          client_secret |-> client_secret, tenant_id |-> tenant_id]
    ELSE [domain |-> Absent, client_id |-> client_id,
          client_secret |-> client_secret, tenant_id |-> Absent]

\* self._parser[site] = {...} followed by the update: a named section (the
\* default section included) is cleared and refilled; the empty name adds a
\* section "" and configparser's set() puts its options into the default
\* section, on top of what is there
WriteRecord(st, site, rec) ==
    IF site = ""
    THEN [st EXCEPT ![DEFAULT] = [f \in Fields |-> IF rec[f] # Absent THEN rec[f] ELSE @[f]]]
    ELSE [st EXCEPT ![site] = rec]

\* the file after parser.write: a section "" is written as the header "[]",
\* which configparser cannot read back
WrittenState(site) == IF site = "" THEN "corrupt" ELSE "ok"

\* the token endpoint's answers: a token comes with 200 at most, and a 200
\* may come without one
Responses == {r \in [status : Statuses, token : Tokens] :
                 r.status # HTTP_OK => r.token = None}

\* the record of a builder call: its arguments, how it ended (r), and whether
\* it wrote config.ini
CallRecord(name, site, client_id, client_secret, domain, tenant_id, r, wrote) ==
    [op |-> name, site |-> site, status |-> r.status, domain |-> domain,
     outcome |-> r.outcome, exchanges |-> r.exchanges, client_id |-> client_id,
     client_secret |-> client_secret, tenant_id |-> tenant_id, wrote |-> wrote]

\* SharePointObjectBuilder.__call__(site)
Resolve(site, res) ==
    LET r == CallResult(site, storeState, store, res) IN
    /\ _instance' = IF r.outcome = "client" THEN r.client ELSE _instance
    /\ json_data' = IF r.outcome = "client" THEN NoData ELSE json_data
    /\ call' = CallRecord("resolve", site, None, None, None, None, r, FALSE)
    /\ UNCHANGED <<storeState, store, failedReg, remote, local, op>>

\* SharePointObjectBuilder.register_site(site=, client_id=, client_secret=, domain=, tenant_id=)
RegisterSite(site, client_id, client_secret, domain, tenant_id, res) ==
    IF storeState # "ok"
    THEN /\ call' = CallRecord("register_site", site, client_id, client_secret, domain,
                            tenant_id,
                            Ends(IF storeState = "missing" THEN "FileNotFoundError"
                                                           ELSE "ParsingError"),
                            FALSE)
         /\ failedReg' = failedReg \ {site}
         /\ UNCHANGED <<storeState, store, _instance, clientVars>>
    ELSE LET st == WriteRecord(store, site, NewRecord(client_id, client_secret, domain, tenant_id))
             r == CallResult(site, "ok", st, res)
         IN /\ store' = st
            /\ storeState' = WrittenState(site)
            /\ _instance' = IF r.outcome = "client" THEN r.client ELSE _instance
            /\ json_data' = IF r.outcome = "client" THEN NoData ELSE json_data
            /\ call' = CallRecord("register_site", site, client_id, client_secret, domain,
                               tenant_id, r, TRUE)
            /\ failedReg' = IF r.outcome = "ConnectionRefusedError"
                            THEN failedReg \cup {site} ELSE failedReg \ {site}
            /\ UNCHANGED <<remote, local, op>>

----------------------------------------------------------------------------
(* The site client: one SharePoint object, the remote site, the local disk *)

Folders == {"A", "B"}                      \* folder_path values
Names == {"f1", "f2"}                      \* file names the remote folders may hold
UpNames == {"f1", "f2", "f3"}              \* file names under the local upload directory
UpDir == "up"
SaveDir == "dl"                            \* path_to_save
NoFile == "<no file>"
ErrBody == "<error body>"                  \* what the remote sends for a file it does not hold
UploadStatuses == {HTTP_OK, 500}           \* status codes the add-file endpoint answers with
FolderStatuses == {HTTP_CREATED, 403}      \* status codes the folders endpoint answers with

MaxDownloads == 3                          \* longest list given to bulk_download
MaxUploads == 2                            \* longest list given to bulk_upload

\* Path(dir).joinpath(name)
PathOf(dir, name) == <<dir, name>>
UploadPaths == {PathOf(UpDir, n) : n \in UpNames}
LocalPaths == UploadPaths \cup {PathOf(SaveDir, n) : n \in Names}

\* Path.is_file()
IsFile(loc, path) == loc[path] # NoFile

\* the requests the client sends, as the remote sees them
ListingReq(folder) ==
    [status |-> HTTP_OK, name |-> "", folder |-> folder, method |-> "GET", what |-> "files"]
ContentReq(folder, name, found) ==
    [status |-> IF found THEN HTTP_OK ELSE 404, name |-> name, folder |-> folder,
     method |-> "GET", what |-> "$value"]
AddReq(folder, name, status) ==
    [status |-> status, name |-> name, folder |-> folder, method |-> "POST", what |-> "add"]
FolderReq(folder, name, status) ==
    [status |-> status, name |-> name, folder |-> folder, method |-> "POST", what |-> "folders"]

\* the remote's answer to GET .../files: the names the folder holds now
RemoteListing(rem, folder) == {n \in Names : rem[folder][n] # NoFile}

\* the remote's answer to GET .../Files('name')/$value
RemoteContent(rem, folder, name) ==
    IF rem[folder][name] # NoFile THEN rem[folder][name] ELSE ErrBody

\* SharePoint._get_metadata: json_data becomes the parsed listing
GetMetadata(rem, folder) == [fetched |-> TRUE, results |-> RemoteListing(rem, folder)]

\* `if not self.json_data: self._get_metadata(folder_path)`
PrimedData(json, rem, folder) == IF ~json.fetched THEN GetMetadata(rem, folder) ELSE json

PrimingReqs(json, folder) == IF ~json.fetched THEN <<ListingReq(folder)>> ELSE <<>>

\* one download_file call from cache json and disk loc: the cache and the disk
\* it leaves, what it sent and wrote, and how it ended
DownloadOne(json, loc, rem, folder, name, dir) ==
    IF name \in PrimedData(json, rem, folder).results
    THEN [local |-> [loc EXCEPT ![PathOf(dir, name)] = RemoteContent(rem, folder, name)],
          outcome |-> "saved",
          json |-> PrimedData(json, rem, folder),
          reqs |-> PrimingReqs(json, folder)
                     \o <<ContentReq(folder, name, rem[folder][name] # NoFile)>>,
          writes |-> <<PathOf(dir, name)>>]
    ELSE [local |-> loc,
          outcome |-> "FileNotFoundError",
          json |-> PrimedData(json, rem, folder),
          reqs |-> PrimingReqs(json, folder),
          writes |-> <<>>]

\* a bulk_download that skips a name it does not find and goes on
RECURSIVE DownloadAllSkipping(_, _, _, _, _, _)
DownloadAllSkipping(json, loc, rem, folder, files, dir) ==
    IF files = <<>>
    THEN [local |-> loc, outcome |-> "saved", json |-> json, reqs |-> <<>>, writes |-> <<>>]
    ELSE LET h == DownloadOne(json, loc, rem, folder, Head(files), dir)
             t == DownloadAllSkipping(h.json, h.local, rem, folder, Tail(files), dir)
         IN [local |-> t.local,
             outcome |-> IF h.outcome # "saved" THEN h.outcome ELSE t.outcome,
             json |-> t.json, reqs |-> h.reqs \o t.reqs, writes |-> h.writes \o t.writes]

\* the list comprehension of bulk_download: download_file for each name in
\* turn, the first exception ending it
RECURSIVE DownloadAll(_, _, _, _, _, _)
DownloadAll(json, loc, rem, folder, files, dir) ==
    IF files = <<>>
    THEN [local |-> loc, outcome |-> "saved", json |-> json, reqs |-> <<>>, writes |-> <<>>]
    ELSE LET h == DownloadOne(json, loc, rem, folder, Head(files), dir) IN
         IF h.outcome # "saved"
         THEN h
         ELSE LET t == DownloadAll(h.json, h.local, rem, folder, Tail(files), dir) IN
              [local |-> t.local, outcome |-> t.outcome, json |-> t.json,
               reqs |-> h.reqs \o t.reqs, writes |-> h.writes \o t.writes]

\* an upload_file that raises when the remote refuses the POST
UploadOneRaising(loc, rem, folder, path, status) ==
    IF IsFile(loc, path)
    THEN [remote |-> IF status = HTTP_OK
                     THEN [rem EXCEPT ![folder][path[2]] = loc[path]]
                     ELSE rem,
          outcome |-> IF status = HTTP_OK THEN "None" ELSE "HTTPError",
          reqs |-> <<AddReq(folder, path[2], status)>>]
    ELSE [remote |-> rem, outcome |-> "FileNotFoundError", reqs |-> <<>>]

\* an upload_file that does not look for the local file before it POSTs
UploadOneUnchecked(loc, rem, folder, path, status) ==
    [remote |-> IF status = HTTP_OK /\ IsFile(loc, path)
                THEN [rem EXCEPT ![folder][path[2]] = loc[path]]
                ELSE rem,
     outcome |-> "None",
     reqs |-> <<AddReq(folder, path[2], status)>>]

\* one upload_file call: the remote it leaves, what it sent, how it ended
UploadOne(loc, rem, folder, path, status) ==
    IF IsFile(loc, path)
    THEN [remote |-> IF status = HTTP_OK
                     THEN [rem EXCEPT ![folder][path[2]] = loc[path]]
                     ELSE rem,
          outcome |-> "None",
          reqs |-> <<AddReq(folder, path[2], status)>>]
    ELSE [remote |-> rem, outcome |-> "FileNotFoundError", reqs |-> <<>>]

\* the loop of bulk_upload: upload_file for each path in turn, the remote
\* answering the i-th POST with statuses[i]
RECURSIVE UploadAll(_, _, _, _, _)
UploadAll(loc, rem, folder, files, statuses) ==
    IF files = <<>>
    THEN [remote |-> rem, outcome |-> "None", reqs |-> <<>>]
    ELSE LET h == UploadOne(loc, rem, folder, Head(files), Head(statuses)) IN
         IF h.outcome # "None"
         THEN h
         ELSE LET t == UploadAll(loc, h.remote, folder, Tail(files), Tail(statuses)) IN
              [remote |-> t.remote, outcome |-> t.outcome, reqs |-> h.reqs \o t.reqs]

\* the files argument of a bulk operation: a list, or some other value
\* (a tuple, a str) with the same items
ListArg(items) == [items |-> items, isList |-> TRUE]
OtherArg(items) == [items |-> items, isList |-> FALSE]
NoArg == ListArg(<<>>)

SeqsUpTo(S, n) == UNION {[1..k -> S] : k \in 0..n}

\* lists that name no item twice
Distinct(S, n) == {q \in SeqsUpTo(S, n) : \A i, j \in DOMAIN q : q[i] = q[j] => i = j}

\* values given as files that are not lists: a str, a tuple
NonLists == {OtherArg(<<"f1">>), OtherArg(<<"f1", "f2">>)}

\* path_dict: path.stem -> str(path) for the saved paths
PathDict(paths) == {<<paths[i][2], paths[i]>> : i \in DOMAIN paths}

OpRecord(name, folder, dir, file, files, outcome, reqs, writes, ret) ==
    [outcome |-> outcome, name |-> name, dir |-> dir, folder |-> folder, reqs |-> reqs,
     writes |-> writes, files |-> files, file |-> file, ret |-> ret]

\* SharePoint.download_file(folder_path, file_name, path_to_save)
DownloadFile(folder, name, dir) ==
    LET d == DownloadOne(json_data, local, remote, folder, name, dir) IN
    /\ json_data' = d.json
    /\ local' = d.local
    /\ op' = OpRecord("download_file", folder, dir, name, NoArg, d.outcome, d.reqs, d.writes,
                      PathDict(d.writes))
    /\ UNCHANGED <<remote, registryVars>>

\* SharePoint.bulk_download(folder_path, path_to_save, files)
BulkDownload(folder, dir, files) ==
    IF files.isList
    THEN LET d == DownloadAll(json_data, local, remote, folder, files.items, dir) IN
         /\ json_data' = d.json
         /\ local' = d.local
         /\ op' = OpRecord("bulk_download", folder, dir, "", files,
                           IF d.outcome = "saved" THEN "path_dict" ELSE d.outcome,
                           d.reqs, d.writes,
                           IF d.outcome = "saved" THEN PathDict(d.writes) ELSE {})
         /\ UNCHANGED <<remote, registryVars>>
    ELSE /\ op' = OpRecord("bulk_download", folder, dir, "", files,
                           "UnboundLocalError", <<>>, <<>>, {})
         /\ UNCHANGED <<json_data, local, remote, registryVars>>

\* SharePoint.upload_file(folder_path, absolute_filepath)
UploadFile(folder, path, status) ==
    LET u == UploadOne(local, remote, folder, path, status) IN
    /\ remote' = u.remote
    /\ op' = OpRecord("upload_file", folder, path[1], path[2], NoArg, u.outcome, u.reqs, <<>>, {})
    /\ UNCHANGED <<json_data, local, registryVars>>

\* the remote's answers to the POSTs of a list of paths when it refuses the
\* names in rejected
AddStatuses(files, rejected) ==
    [i \in DOMAIN files |-> IF files[i][2] \in rejected THEN 500 ELSE HTTP_OK]

\* SharePoint.bulk_upload(folder_path, files_to_upload)
BulkUpload(folder, files, rejected) ==
    LET u == UploadAll(local, remote, folder, files, AddStatuses(files, rejected)) IN
    /\ remote' = u.remote
    /\ op' = OpRecord("bulk_upload", folder, "", "", ListArg(files), u.outcome, u.reqs, <<>>, {})
    /\ UNCHANGED <<json_data, local, registryVars>>

\* SharePoint.create_folder(folder_path, folder_name): the new folder shows in
\* no folder's file listing, so the files of the remote stay as they are
CreateFolder(folder, name, status) ==
    /\ op' = OpRecord("create_folder", folder, "", name, NoArg, "None",
                      <<FolderReq(folder, name, status)>>, <<>>, {})
    /\ UNCHANGED <<json_data, local, remote, registryVars>>

----------------------------------------------------------------------------
(* Specifications *)

NoCall == CallRecord("none", "", None, None, None, None, Ends("None"), FALSE)
NoOp == OpRecord("none", "", "", "", NoArg, "None", <<>>, <<>>, {})

\* the operator's own tenant and domain in the default section
OwnTenant == [EmptyRecord EXCEPT !["domain"] = "d1", !["tenant_id"] = "t1"]
ExternalRecord == NewRecord("id1", "sec1", "d1", "t1")

InitialStores ==
    {[s \in Sections |-> IF s = DEFAULT THEN d ELSE IF s = "s2" THEN r ELSE NoSection] :
        d \in {EmptyRecord, OwnTenant}, r \in {ExternalRecord}}

InitialRemote ==
    [f \in Folders |-> [n \in Names |-> IF f = "A" /\ n = "f1" THEN "c1" ELSE NoFile]]

InitialLocal ==
    [p \in LocalPaths |->
        IF p = PathOf(UpDir, "f1") THEN "c1"
        ELSE IF p = PathOf(UpDir, "f2") THEN "c2" ELSE NoFile]

\* the builder after construction, with config.ini as the operator left it
RegistryInit ==
    /\ storeState \in {"missing", "ok"}
    /\ store \in InitialStores
    /\ _instance = NoClient
    /\ call = NoCall
    /\ failedReg = {}
    /\ json_data = NoData
    /\ remote = InitialRemote
    /\ local = InitialLocal
    /\ op = NoOp

RegistryNext ==
    \/ \E site \in Sites, res \in Responses : Resolve(site, res)
    \/ \E site \in RegSites, client_id \in ClientIds, client_secret \in ClientSecrets,
          domain \in Optional(Domains), tenant_id \in Optional(Tenants), res \in Responses :
          RegisterSite(site, client_id, client_secret, domain, tenant_id, res)

RegistrySpec == RegistryInit /\ [][RegistryNext]_vars

\* a SharePoint object as the builder returns it
Init ==
    /\ storeState = "ok"
    /\ store \in {st \in InitialStores : st[DEFAULT] = OwnTenant}
    /\ _instance = CallConnected("s2", store, [status |-> HTTP_OK, token |-> "tok"]).client
    /\ call = CallRecord("resolve", "s2", None, None, None, None,
                         CallConnected("s2", store, [status |-> HTTP_OK, token |-> "tok"]), FALSE)
    /\ failedReg = {}
    /\ json_data = NoData
    /\ remote = InitialRemote
    /\ local = InitialLocal
    /\ op = NoOp

Next ==
    \/ \E folder \in Folders, name \in Names : DownloadFile(folder, name, SaveDir)
    \/ \E folder \in Folders, files \in SeqsUpTo(Names, MaxDownloads) :
          BulkDownload(folder, SaveDir, ListArg(files))
    \/ \E folder \in Folders, files \in NonLists : BulkDownload(folder, SaveDir, files)
    \/ \E folder \in Folders, path \in UploadPaths, status \in UploadStatuses :
          UploadFile(folder, path, status)
    \/ \E folder \in Folders, files \in Distinct(UploadPaths, MaxUploads) :
          \E rejected \in SUBSET ({files[i][2] : i \in DOMAIN files} \cap Names) :
              BulkUpload(folder, files, rejected)
    \/ \E folder \in Folders, status \in FolderStatuses : CreateFolder(folder, "new", status)

Spec == Init /\ [][Next]_vars

----------------------------------------------------------------------------
(* The site registry's properties, checked under RegistrySpec *)

\* C1: in every builder call (resolve or register_site) a SharePoint object is
\* returned and recorded as _instance only when the call's token exchange
\* answered 200, and its connection_status() is that status; when the exchange
\* answered anything else the call ends in ConnectionRefusedError with that
\* status, and whenever no object is returned _instance stays as it was.
C1_ClientOnlyFromOk ==
    [][/\ call'.outcome = "client" <=> (call'.exchanges = 1 /\ call'.status = HTTP_OK)
       /\ call'.outcome = "client" =>
            /\ _instance' # NoClient
            /\ _instance'.site = call'.site
            /\ connection_status(_instance') = call'.status
       /\ (call'.exchanges = 1 /\ call'.status # HTTP_OK) =>
            call'.outcome = "ConnectionRefusedError"
       /\ call'.outcome # "client" => _instance' = _instance]_vars

\* C1 witness: an exchange was refused after an earlier call had built an
\* object, which the builder still holds
C1_Witness ==
    /\ call.outcome = "ConnectionRefusedError"
    /\ call.status = 401
    /\ _instance # NoClient
    /\ _instance.site # call.site

\* a site name with a record of its own in the file
HasRecord(st, site) == site \in Sections /\ st[site] # NoSection /\ st[site] # EmptyRecord

\* C2 (as claimed): resolve(site) for a site name with no record in an existing
\* store ends in KeyError and makes no exchange.
C2_UnknownSiteIsKeyError ==
    (call.op = "resolve" /\ storeState = "ok" /\ ~HasRecord(store, call.site)) =>
        (call.outcome = "KeyError" /\ call.exchanges = 0)

\* both optional arguments were passed (are not None)
Supplied(c) == c.domain # None /\ c.tenant_id # None

\* the record the claim expects for the call c: four fields when both is true
ExpectedRecord(c, both) ==
    [domain |-> IF both THEN c.domain ELSE Absent,
     client_id |-> c.client_id, client_secret |-> c.client_secret,
     tenant_id |-> IF both THEN c.tenant_id ELSE Absent]

WriteStaysAfterRefusal ==
    /\ (call.op = "register_site" /\ ~call.wrote) =>
            /\ storeState # "ok"
            /\ call.exchanges = 0
            /\ call.outcome = IF storeState = "missing" THEN "FileNotFoundError"
                                                        ELSE "ParsingError"
    /\ (call.op = "register_site" /\ call.exchanges = 1) =>
            /\ call.wrote
            /\ storeState = "ok"
            /\ store[call.site] =
                 ExpectedRecord(call, Truthy(call.domain) /\ Truthy(call.tenant_id))
    /\ (call.op = "register_site" /\ call.exchanges = 1 /\ call.status # HTTP_OK) =>
            /\ call.outcome = "ConnectionRefusedError"
            /\ call.site \in failedReg
    /\ (call.op = "resolve" /\ call.site \in failedReg) =>
            /\ call.exchanges \in {0, 1}
            /\ storeState = "ok" =>
                  /\ call.site \in Sections /\ store[call.site] # NoSection
                  /\ call.outcome # "KeyError"

\* C10 (as claimed): register_site writes the record before the exchange and
\* keeps it when the exchange is refused, and a later resolve(site) on the
\* store finds the site and makes exactly one exchange.
C10_LaterResolveExchanges ==
    /\ WriteStaysAfterRefusal
    /\ (call.op = "resolve" /\ call.site \in failedReg /\ storeState = "ok") =>
            (call.outcome # "KeyError" /\ call.exchanges = 1)

----------------------------------------------------------------------------
(* The site client's properties, checked under Spec *)

\* the file names of the content requests in a log, in the order sent
ContentNames(reqs) ==
    LET gets == SelectSeq(reqs, LAMBDA r : r.what = "$value")
    IN [i \in DOMAIN gets |-> gets[i].name]

\* the file names of the add-file requests in a log, in the order sent
AddNames(reqs) ==
    LET adds == SelectSeq(reqs, LAMBDA r : r.method = "POST" /\ r.what = "add")
    IN [i \in DOMAIN adds |-> adds[i].name]

\* the first position of q that is in the set bad, or Len(q) + 1
FirstIn(q, bad) ==
    IF bad = {} THEN Len(q) + 1 ELSE CHOOSE i \in bad : \A j \in bad : i <= j

\* C3 (as claimed): download_file of a name that is not in the remote listing
\* of folder_path ends in FileNotFoundError, sends no content request and
\* writes no local file, whatever the client did before.
C3_AbsentNameRaises ==
    (op.name = "download_file" /\ op.file \notin RemoteListing(remote, op.folder)) =>
        /\ op.outcome = "FileNotFoundError"
        /\ ContentNames(op.reqs) = <<>>
        /\ op.writes = <<>>

\* C4 (as claimed): a download_file of the same folder and name that follows
\* an upload_file the remote accepted ends with the file saved, its content
\* that of the uploaded file.
C4_RoundTrip ==
    [][(/\ op.name = "upload_file" /\ op.outcome = "None"
        /\ op.reqs # <<>> /\ op.reqs[1].status = HTTP_OK
        /\ op'.name = "download_file" /\ op'.folder = op.folder /\ op'.file = op.file) =>
          /\ op'.outcome = "saved"
          /\ local'[PathOf(op'.dir, op'.file)] = local[PathOf(op.dir, op.file)]]_vars

\* C5: bulk_download takes the names in list order and stops at the first
\* name download_file does not find: the content requests and the writes are
\* those of the names before it, in order, nothing is sent or written for a
\* later name, the call ends in FileNotFoundError with no mapping, and the
\* files saved before it are on disk; with every name found, all are saved
\* and the mapping of the saved paths is returned.
C5_BulkDownloadFailFast ==
    (op.name = "bulk_download" /\ op.files.isList) =>
        LET files == op.files.items
            missing == {i \in DOMAIN files : files[i] \notin json_data.results}
            stop == FirstIn(files, missing)
            before == SubSeq(files, 1, stop - 1)
        IN /\ ContentNames(op.reqs) = before
           /\ op.writes = [i \in DOMAIN before |-> PathOf(op.dir, before[i])]
           /\ \A i \in DOMAIN op.reqs : op.reqs[i].what = "files" => i = 1
           /\ Len(op.reqs) <= Len(before) + 1
           /\ \A i \in DOMAIN before : local[PathOf(op.dir, before[i])] # NoFile
           /\ missing # {} => (op.outcome = "FileNotFoundError" /\ op.ret = {})
           /\ missing = {} =>
                 /\ op.outcome = "path_dict"
                 /\ op.ret = {<<files[i], PathOf(op.dir, files[i])>> : i \in DOMAIN files}

\* C5 witness: a bulk_download stopped at its second name with a third still
\* to come, the first name's file saved
C5_Witness ==
    /\ op.name = "bulk_download" /\ op.files.isList
    /\ Len(op.files.items) > Len(op.writes) + 1
    /\ op.outcome = "FileNotFoundError"
    /\ Len(op.writes) = 1
    /\ local[op.writes[1]] \notin {NoFile, ErrBody}

\* C6 (as claimed): when the remote refuses the POST of a file of the list,
\* every file after it is still POSTed, once each and in list order, and
\* bulk_upload raises nothing.
C6_BulkUploadFailSoft ==
    (op.name = "bulk_upload" /\ \E i \in DOMAIN op.reqs : op.reqs[i].status # HTTP_OK) =>
        /\ op.outcome = "None"
        /\ AddNames(op.reqs) = [i \in DOMAIN op.files.items |-> op.files.items[i][2]]

\* C6 (amended): bulk_upload goes on past a POST the remote refuses, and
\* stops only at a path that is not an existing local file: every path before
\* the first such path is POSTed once, in list order, whatever the answers,
\* and nothing after it; bulk_upload raises FileNotFoundError when the list
\* holds such a path and nothing when it holds none.
C6_BulkUploadStopsAtMissing ==
    (op.name = "bulk_upload") =>
        LET files == op.files.items
            missing == {i \in DOMAIN files : local[files[i]] = NoFile}
            before == SubSeq(files, 1, FirstIn(files, missing) - 1)
        IN /\ AddNames(op.reqs) = [i \in DOMAIN before |-> before[i][2]]
           /\ Len(op.reqs) = Len(before)
           /\ \A i \in DOMAIN op.reqs : op.reqs[i].folder = op.folder
           /\ op.outcome = IF missing = {} THEN "None" ELSE "FileNotFoundError"

\* C6 witness: the remote refused the first POST of a bulk_upload and the
\* next file was POSTed all the same, the call raising nothing
C6_Witness ==
    /\ op.name = "bulk_upload" /\ op.outcome = "None"
    /\ Len(op.reqs) = 2 /\ Len(op.files.items) = 2
    /\ op.reqs[1].status # HTTP_OK
    /\ op.reqs[2].status = HTTP_OK

\* C7: upload_file of a path that is not an existing local file ends in
\* FileNotFoundError, sends nothing, and leaves the object (token, status
\* code, folder listing) as well as the remote and the disk as they were.
C7_UploadMissingLocalFile ==
    [][(op'.name = "upload_file" /\ local[PathOf(op'.dir, op'.file)] = NoFile) =>
          /\ op'.outcome = "FileNotFoundError"
          /\ op'.reqs = <<>>
          /\ UNCHANGED <<_instance, json_data, remote, local>>]_vars

\* C7 witness: an upload_file of a missing path on an object that holds a
\* folder listing
C7_Witness ==
    /\ op.name = "upload_file" /\ op.outcome = "FileNotFoundError"
    /\ local[PathOf(op.dir, op.file)] = NoFile
    /\ json_data.fetched /\ json_data.results # {}

\* C9 (as claimed): bulk_download with files that is not a list ends in
\* TypeError, with nothing sent and nothing written.
C9_NonListIsTypeError ==
    (op.name = "bulk_download" /\ ~op.files.isList) =>
        (op.outcome = "TypeError" /\ op.reqs = <<>> /\ op.writes = <<>>)

====
